---- MODULE Spec2Model ----
(***************************************************************************)
(* Model of the YouTube live monitor: the channel-identifier resolver      *)
(* (src/src/channel_parser.py), the live-status detector (same file) and   *)
(* the caller-facing check (src/src/youtube_service.py).                   *)
(*                                                                         *)
(* A Python str is a sequence of one-character strings.  A value that may  *)
(* be None is a record [some, v].  A raised exception is an outcome record *)
(* carrying the exception class and str(e).                                *)
(***************************************************************************)
EXTENDS Integers, Sequences, FiniteSets, TLC

VARIABLES pc, input, web, fetches, branch, outcome, calls,
          env, app, task, cancelling, interval, poll, last

\* the state of one call of an entry point
callVars == <<pc, input, web, fetches, branch, outcome, calls>>

\* the state of the background poller
pollerVars == <<env, app, task, cancelling, interval, poll, last>>

vars == <<pc, input, web, fetches, branch, outcome, calls,
          env, app, task, cancelling, interval, poll, last>>

-----------------------------------------------------------------------------
(* Optional values and call outcomes *)

None == [some |-> FALSE, v |-> <<>>]

Some(s) == [some |-> TRUE, v |-> s]

Truthy(o) == o.some /\ o.v # <<>>

Return(v) == [tag |-> "return", exc |-> "", val |-> v]

Raise(cls, msg) == [tag |-> "raise", exc |-> cls, val |-> msg]

NoOutcome == [tag |-> "none", exc |-> "", val |-> <<>>]

-----------------------------------------------------------------------------
(* Strings *)

\* the characters that a string of this module cannot hold are written as
\* their code points: "U+000B" is the one character U+000B
VerticalTab == "U+000B"

\* the characters c with c.isspace(), which str.strip() removes
Whitespace ==
    {" ", "\t", "\n", "\r", "\f", VerticalTab,
     "U+001C", "U+001D", "U+001E", "U+001F", "U+0085", "U+00A0", "U+1680",
     "U+2000", "U+2001", "U+2002", "U+2003", "U+2004", "U+2005", "U+2006",
     "U+2007", "U+2008", "U+2009", "U+200A", "U+2028", "U+2029", "U+202F",
     "U+205F", "U+3000"}

Lower == {"a","b","c","d","e","f","g","h","i","j","k","l","m",
          "n","o","p","q","r","s","t","u","v","w","x","y","z"}

Upper == {"A","B","C","D","E","F","G","H","I","J","K","L","M",
          "N","O","P","Q","R","S","T","U","V","W","X","Y","Z"}

Digit == {"0","1","2","3","4","5","6","7","8","9"}

IdChars == Lower \cup Upper \cup Digit \cup {"_", "-"}

IdTailLen == 22

VideoIdLen == 11

YOUTUBE_DOMAIN == <<"y", "o", "u", "t", "u", "b", "e", ".", "c", "o", "m">>

YOUTUBE_SHORT_DOMAIN == <<"y", "o", "u", "t", "u", ".", "b", "e">>

HandleBase == <<"h", "t", "t", "p", "s", ":", "/", "/", "w", "w", "w", ".", "y", "o", "u", "t", "u", "b", "e", ".", "c", "o", "m", "/">>

ChannelBase == <<"h", "t", "t", "p", "s", ":", "/", "/", "w", "w", "w", ".", "y", "o", "u", "t", "u", "b", "e", ".", "c", "o", "m", "/", "c", "h", "a", "n", "n", "e", "l", "/">>

LiveSuffix == <<"/", "l", "i", "v", "e">>

WatchBase == <<"h", "t", "t", "p", "s", ":", "/", "/", "w", "w", "w", ".", "y", "o", "u", "t", "u", "b", "e", ".", "c", "o", "m", "/", "w", "a", "t", "c", "h", "?", "v", "=">>

WatchNeedle == <<"y", "o", "u", "t", "u", "b", "e", ".", "c", "o", "m", "/", "w", "a", "t", "c", "h", "?", "v", "=">>

MsgCouldNotParse == <<"C", "o", "u", "l", "d", " ", "n", "o", "t", " ", "p", "a", "r", "s", "e", " ", "c", "h", "a", "n", "n", "e", "l", " ", "I", "D", " ", "f", "r", "o", "m", ":", " ">>

MsgNetwork == <<"N", "e", "t", "w", "o", "r", "k", " ", "e", "r", "r", "o", "r", ":", " ">>

MsgFailedExtract == <<"F", "a", "i", "l", "e", "d", " ", "t", "o", " ", "e", "x", "t", "r", "a", "c", "t", " ", "c", "h", "a", "n", "n", "e", "l", " ", "I", "D", ":", " ">>

MsgNoCanonicalIn == <<"C", "o", "u", "l", "d", " ", "n", "o", "t", " ", "f", "i", "n", "d", " ", "c", "a", "n", "o", "n", "i", "c", "a", "l", " ", "l", "i", "n", "k", " ", "i", "n", " ">>

MsgNoIdIn == <<"C", "o", "u", "l", "d", " ", "n", "o", "t", " ", "e", "x", "t", "r", "a", "c", "t", " ", "c", "h", "a", "n", "n", "e", "l", " ", "I", "D", " ", "f", "r", "o", "m", " ">>

MsgNoCanonicalPage == <<"C", "o", "u", "l", "d", " ", "n", "o", "t", " ", "f", "i", "n", "d", " ", "c", "a", "n", "o", "n", "i", "c", "a", "l", " ", "l", "i", "n", "k", " ", "i", "n", " ", "c", "h", "a", "n", "n", "e", "l", " ", "p", "a", "g", "e">>

MsgFailedParse == <<"F", "a", "i", "l", "e", "d", " ", "t", "o", " ", "p", "a", "r", "s", "e", " ", "c", "h", "a", "n", "n", "e", "l", " ", "p", "a", "g", "e", ":", " ">>

MsgUnexpected == <<"U", "n", "e", "x", "p", "e", "c", "t", "e", "d", " ", "e", "r", "r", "o", "r", ":", " ">>

\* s[i..] begins with the literal p
OccursAt(s, p, i) ==
    /\ i >= 1
    /\ i + Len(p) - 1 <= Len(s)
    /\ \A k \in 1..Len(p) : s[i + k - 1] = p[k]

StartsWith(s, p) == OccursAt(s, p, 1)

\* Python's  p in s
Contains(s, p) == \E i \in 1..(Len(s) + 1) : OccursAt(s, p, i)

\* Strip without the trimming
StripNone(s) == s

\* str.strip(): drop leading and trailing whitespace
Strip(s) ==
    IF \A i \in 1..Len(s) : s[i] \in Whitespace THEN <<>>
    ELSE LET lo == CHOOSE i \in 1..Len(s) :
                       s[i] \notin Whitespace /\ \A j \in 1..(i - 1) : s[j] \in Whitespace
             hi == CHOOSE i \in 1..Len(s) :
                       s[i] \notin Whitespace /\ \A j \in (i + 1)..Len(s) : s[j] \in Whitespace
         IN  SubSeq(s, lo, hi)

\* CHANNEL_ID_PATTERN = UC[a-zA-Z0-9_-]{22} matches s at position i
ChannelIdAt(s, i) ==
    /\ i >= 1
    /\ i + IdTailLen + 1 <= Len(s)
    /\ s[i] = "U"
    /\ s[i + 1] = "C"
    /\ \A k \in 2..(IdTailLen + 1) : s[i + k] \in IdChars

\* re.match("^" + CHANNEL_ID_PATTERN + "<<",", " ", "s", ")", ":", " ">>" matches at the end of
\* the string and also just before a newline that ends the string
MatchWholeChannelId(s) ==
    /\ ChannelIdAt(s, 1)
    /\ \/ Len(s) = IdTailLen + 2
       \/ Len(s) = IdTailLen + 3 /\ s[Len(s)] = "\n"

\* SearchChannelId taking the rightmost match
SearchChannelIdLast(s) ==
    IF \A i \in 1..Len(s) : ~ChannelIdAt(s, i) THEN None
    ELSE LET i == CHOOSE i \in 1..Len(s) :
                      ChannelIdAt(s, i) /\ \A j \in (i + 1)..Len(s) : ~ChannelIdAt(s, j)
         IN  Some(SubSeq(s, i, i + IdTailLen + 1))

\* re.search(CHANNEL_ID_PATTERN, s): the leftmost match, or None
SearchChannelId(s) ==
    IF \A i \in 1..Len(s) : ~ChannelIdAt(s, i) THEN None
    ELSE LET i == CHOOSE i \in 1..Len(s) :
                      ChannelIdAt(s, i) /\ \A j \in 1..(i - 1) : ~ChannelIdAt(s, j)
         IN  Some(SubSeq(s, i, i + IdTailLen + 1))

\* WatchAt accepting any 11 characters after the literal
WatchAtLoose(s, i) ==
    /\ OccursAt(s, WatchNeedle, i)
    /\ i + Len(WatchNeedle) + VideoIdLen - 1 <= Len(s)

\* the regex youtube\.com/watch\?v=([a-zA-Z0-9_-]{11}) matches s at i
WatchAt(s, i) ==
    /\ OccursAt(s, WatchNeedle, i)
    /\ i + Len(WatchNeedle) + VideoIdLen - 1 <= Len(s)
    /\ \A k \in 0..(VideoIdLen - 1) : s[i + Len(WatchNeedle) + k] \in IdChars

\* SearchVideoId taking the rightmost match
SearchVideoIdLast(s) ==
    IF \A i \in 1..Len(s) : ~WatchAt(s, i) THEN None
    ELSE LET i == CHOOSE i \in 1..Len(s) :
                      WatchAt(s, i) /\ \A j \in (i + 1)..Len(s) : ~WatchAt(s, j)
         IN  Some(SubSeq(s, i + Len(WatchNeedle),
                         i + Len(WatchNeedle) + VideoIdLen - 1))

\* re.search of that regex: group(1) of the leftmost match, or None
SearchVideoId(s) ==
    IF \A i \in 1..Len(s) : ~WatchAt(s, i) THEN None
    ELSE LET i == CHOOSE i \in 1..Len(s) :
                      WatchAt(s, i) /\ \A j \in 1..(i - 1) : ~WatchAt(s, j)
         IN  Some(SubSeq(s, i + Len(WatchNeedle),
                         i + Len(WatchNeedle) + VideoIdLen - 1))

-----------------------------------------------------------------------------
(* What the network answers to one GET.                                    *)
(*   kind "transport"  requests.get raises a RequestException(msg)         *)
(*   kind "status"     raise_for_status raises an HTTPError(msg), which is *)
(*                     a RequestException                                  *)
(*   kind "fault"      requests.get raises some other Exception(msg)       *)
(*   kind "parsefault" BeautifulSoup(...) raises some other Exception(msg) *)
(*   kind "page"       the parsed document: canon lists the href of every  *)
(*                     <link rel="canonical"> in document order (None when *)
(*                     the attribute is missing), metas the content of     *)
(*                     every <meta name="title">                           *)
(***************************************************************************)

Failure(kind, msg) == [kind |-> kind, msg |-> msg, canon |-> <<>>, metas |-> <<>>]

Page(canon, metas) == [kind |-> "page", msg |-> <<>>, canon |-> canon, metas |-> metas]

\* soup.find('link', rel='canonical') followed by .get('href'): the href of
\* the first canonical link; None when there is no such element or attribute
FindCanonicalHref(page) ==
    IF page.canon = <<>> THEN None ELSE page.canon[1]

\* soup.find('meta', attrs={'name': 'title'}) followed by .get('content')
FindMetaTitle(page) ==
    IF page.metas = <<>> THEN None ELSE page.metas[1]

\* requests.get(url, headers=headers) and response.raise_for_status()
HttpGet(resp) ==
    IF resp.kind \in {"transport", "status"} THEN Raise("RequestException", resp.msg)
    ELSE IF resp.kind = "fault" THEN Raise("Exception", resp.msg)
    ELSE Return(resp)

-----------------------------------------------------------------------------
(* Identifier resolver: extract_channel_id_from_url *)

\* fetch_channel_id_from_web(url)
FetchChannelIdFromWeb(url, resp) ==
    LET got == HttpGet(resp)
    IN  IF got.tag = "raise" THEN got
        ELSE IF resp.kind = "parsefault" THEN Raise("Exception", resp.msg)
        ELSE LET href == FindCanonicalHref(resp)
             IN  IF ~Truthy(href) THEN Raise("ParsingError", MsgNoCanonicalIn \o url)
                 ELSE LET m == SearchChannelId(href.v)
                      IN  IF m.some THEN Return(m.v)
                          ELSE Raise("ParsingError", MsgNoIdIn \o href.v)

\* ResolveBranch without the absolute-URL test of its last branch
ResolveBranchNoUrlTest(url) ==
    IF MatchWholeChannelId(url) THEN "whole_id"
    ELSE IF SearchChannelId(url).some THEN "embedded_id"
    ELSE IF StartsWith(url, <<"@">>) THEN "handle"
    ELSE IF Contains(url, YOUTUBE_DOMAIN) /\ Contains(url, <<"@">>) THEN "handle_url"
    ELSE IF Contains(url, YOUTUBE_DOMAIN) /\ Contains(url, <<"/", "c", "/">>) THEN "custom_url"
    ELSE IF Contains(url, YOUTUBE_DOMAIN) /\ Contains(url, <<"/", "u", "s", "e", "r", "/">>) THEN "user_url"
    ELSE IF Contains(url, YOUTUBE_DOMAIN) \/ Contains(url, YOUTUBE_SHORT_DOMAIN) THEN "platform_url"
    ELSE "bare_handle"

\* the cascade of tests of extract_channel_id_from_url, first match wins
ResolveBranch(url) ==
    IF MatchWholeChannelId(url) THEN "whole_id"
    ELSE IF SearchChannelId(url).some THEN "embedded_id"
    ELSE IF StartsWith(url, <<"@">>) THEN "handle"
    ELSE IF Contains(url, YOUTUBE_DOMAIN) /\ Contains(url, <<"@">>) THEN "handle_url"
    ELSE IF Contains(url, YOUTUBE_DOMAIN) /\ Contains(url, <<"/", "c", "/">>) THEN "custom_url"
    ELSE IF Contains(url, YOUTUBE_DOMAIN) /\ Contains(url, <<"/", "u", "s", "e", "r", "/">>) THEN "user_url"
    ELSE IF Contains(url, YOUTUBE_DOMAIN) \/ Contains(url, YOUTUBE_SHORT_DOMAIN) THEN "platform_url"
    ELSE IF ~(StartsWith(url, <<"h", "t", "t", "p", ":", "/", "/">>) \/ StartsWith(url, <<"h", "t", "t", "p", "s", ":", "/", "/">>)) THEN "bare_handle"
    ELSE "unparsed"

\* FetchUrl that forgets to prefix a bare handle with "@"
FetchUrlNoPrefix(url, br) ==
    IF br \in {"handle", "bare_handle"} THEN HandleBase \o url ELSE url

\* the URL handed to fetch_channel_id_from_web in a fetching branch
FetchUrl(url, br) ==
    IF br = "handle" THEN HandleBase \o url
    ELSE IF br = "bare_handle"
         THEN HandleBase \o (IF StartsWith(url, <<"@">>) THEN url ELSE <<"@">> \o url)
    ELSE url

\* WrapResolveFailure that lets a RequestException through unwrapped
WrapResolveFailureLeaky(o) ==
    IF o.tag = "return" THEN o
    ELSE IF o.exc = "RequestException" THEN o
    ELSE Raise("ParsingError", MsgFailedExtract \o o.val)

\* the two except clauses that close extract_channel_id_from_url
WrapResolveFailure(o) ==
    IF o.tag = "return" THEN o
    ELSE IF o.exc = "RequestException" THEN Raise("ParsingError", MsgNetwork \o o.val)
    ELSE Raise("ParsingError", MsgFailedExtract \o o.val)

\* extract_channel_id_from_url(raw): the outcome, the branch taken and the
\* URLs fetched, in order
ExtractChannelIdFromUrl(raw, resp) ==
    LET url == Strip(raw)
        br == ResolveBranch(url)
    IN  IF br = "whole_id"
        THEN [out |-> Return(url), branch |-> br, fetched |-> <<>>]
        ELSE IF br = "embedded_id"
        THEN [out |-> Return(SearchChannelId(url).v), branch |-> br, fetched |-> <<>>]
        ELSE IF br = "unparsed"
        THEN [out |-> WrapResolveFailure(Raise("ParsingError", MsgCouldNotParse \o url)),
              branch |-> br, fetched |-> <<>>]
        ELSE LET target == FetchUrl(url, br)
             IN  [out |-> WrapResolveFailure(FetchChannelIdFromWeb(target, resp)),
                  branch |-> br, fetched |-> <<target>>]

-----------------------------------------------------------------------------
(* Live-status detector: parse_channel_page, check_channel_live_status *)

LiveDict(is_live, url, title) ==
    [is_live |-> is_live, livestream_url |-> url, title |-> title]

\* ParseChannelPage that reads the title before deciding live or not
ParseChannelPageTitleAlways(resp) ==
    IF resp.kind = "parsefault" THEN Raise("ParsingError", MsgFailedParse \o resp.msg)
    ELSE LET href == FindCanonicalHref(resp)
         IN  IF ~Truthy(href)
             THEN Raise("ParsingError", MsgFailedParse \o MsgNoCanonicalPage)
             ELSE LET m == SearchVideoId(href.v)
                      meta == FindMetaTitle(resp)
                      title == IF Truthy(meta) THEN meta ELSE None
                  IN  IF m.some
                      THEN Return(LiveDict(TRUE, Some(WatchBase \o m.v), title))
                      ELSE Return(LiveDict(FALSE, None, title))

\* parse_channel_page(html_content), on the parsed document
ParseChannelPage(resp) ==
    IF resp.kind = "parsefault" THEN Raise("ParsingError", MsgFailedParse \o resp.msg)
    ELSE LET href == FindCanonicalHref(resp)
         IN  IF ~Truthy(href)
             THEN Raise("ParsingError", MsgFailedParse \o MsgNoCanonicalPage)
             ELSE LET m == SearchVideoId(href.v)
                      meta == FindMetaTitle(resp)
                  IN  IF m.some
                      THEN Return(LiveDict(TRUE, Some(WatchBase \o m.v),
                                           IF Truthy(meta) THEN meta ELSE None))
                      ELSE Return(LiveDict(FALSE, None, None))

LiveUrl(channel_id) == ChannelBase \o channel_id \o LiveSuffix

\* the tuple check_channel_live_status returns on failure
FailedStatus(msg) == <<FALSE, None, None, Some(msg)>>

\* StatusOnException without the except ParsingError clause's return
StatusOnExceptionLeaky(o) ==
    IF o.exc = "RequestException" THEN Return(FailedStatus(MsgNetwork \o o.val))
    ELSE IF o.exc = "ParsingError" THEN o
    ELSE Return(FailedStatus(MsgUnexpected \o o.val))

\* the three except clauses of check_channel_live_status
StatusOnException(o) ==
    IF o.exc = "RequestException" THEN Return(FailedStatus(MsgNetwork \o o.val))
    ELSE IF o.exc = "ParsingError" THEN Return(FailedStatus(o.val))
    ELSE Return(FailedStatus(MsgUnexpected \o o.val))

\* check_channel_live_status(channel_id): the returned 4-tuple
\* (is_live, livestream_url, title, error) or the exception that escapes,
\* and the URLs fetched
\* CheckChannelLiveStatus that fetches a second time when the fetch failed
CheckChannelLiveStatusRetry(channel_id, resp) ==
    LET got == HttpGet(resp)
        p == IF got.tag = "raise" THEN got ELSE ParseChannelPage(resp)
    IN  [out |-> IF p.tag = "raise" THEN StatusOnException(p)
                 ELSE Return(<<p.val.is_live, p.val.livestream_url, p.val.title, None>>),
         fetched |-> IF got.tag = "raise"
                     THEN <<LiveUrl(channel_id), LiveUrl(channel_id)>>
                     ELSE <<LiveUrl(channel_id)>>]

CheckChannelLiveStatus(channel_id, resp) ==
    LET got == HttpGet(resp)
        p == IF got.tag = "raise" THEN got ELSE ParseChannelPage(resp)
    IN  [out |-> IF p.tag = "raise" THEN StatusOnException(p)
                 ELSE Return(<<p.val.is_live, p.val.livestream_url, p.val.title, None>>),
         fetched |-> <<LiveUrl(channel_id)>>]

-----------------------------------------------------------------------------
(* Caller-facing check: YouTubeService.check_if_live *)

\* datetime.now(timezone.utc).isoformat() + "Z"
DigitChar(n) == <<"0", "1", "2", "3", "4", "5", "6", "7", "8", "9">>[n + 1]

\* n in decimal, in w digits
RECURSIVE Decimal(_, _)
Decimal(n, w) ==
    IF w = 0 THEN <<>> ELSE Decimal(n \div 10, w - 1) \o <<DigitChar(n % 10)>>

\* a reading of the clock in UTC: date and time of day to the second, and
\* the microseconds
Clock(second, microsecond) == [second |-> second, microsecond |-> microsecond]

\* datetime.isoformat() of an aware UTC datetime: the fraction is left out
\* when the microseconds are 0
IsoFormat(now) ==
    now.second
    \o (IF now.microsecond = 0 THEN <<>> ELSE <<".">> \o Decimal(now.microsecond, 6))
    \o <<"+", "0", "0", ":", "0", "0">>

CheckedAt(now) == IsoFormat(now) \o <<"Z">>

\* result[k] = v on a dict
DictSet(d, k, v) == [x \in (DOMAIN d) \cup {k} |-> IF x = k THEN v ELSE d[x]]

\* result[k] = v when v is truthy (the three optional keys)
\* DictSetIfTruthy that sets the key whatever the value
DictSetAlways(d, k, o) == DictSet(d, k, o.v)

DictSetIfTruthy(d, k, o) == IF Truthy(o) THEN DictSet(d, k, o.v) ELSE d

\* the except ParsingError clause of check_if_live
\* OnParsingError that reports the trimmed input
OnParsingErrorTrimmed(result, raw, msg) ==
    DictSet(DictSet(DictSet(result, "channel_id_or_url", Strip(raw)), "is_live", FALSE), "error", msg)

OnParsingError(result, raw, msg) ==
    DictSet(DictSet(DictSet(result, "channel_id_or_url", raw), "is_live", FALSE),
            "error", msg)

\* the except Exception clause of check_if_live
\* OnUnexpectedError that drops the exception's text
OnUnexpectedErrorOpaque(result, raw, msg) ==
    DictSet(DictSet(DictSet(result, "channel_id_or_url", raw), "is_live", FALSE), "error", MsgUnexpected)

OnUnexpectedError(result, raw, msg) ==
    DictSet(DictSet(DictSet(result, "channel_id_or_url", raw), "is_live", FALSE),
            "error", MsgUnexpected \o msg)

\* the handlers of check_if_live applied to an exception raised in its try
HandleCheckFailure(result, raw, o) ==
    IF o.exc = "ParsingError" THEN OnParsingError(result, raw, o.val)
    ELSE OnUnexpectedError(result, raw, o.val)

\* check_if_live(raw).  w.resolve and w.live are the answers to the
\* resolver's and the detector's GET; w.detectorFault, when set, is an
\* exception that escapes the call to check_channel_live_status (as the
\* mocked detector of test_check_if_live_unexpected_error does).
CheckIfLive(raw, w) ==
    LET r0 == [k \in {"checked_at"} |-> CheckedAt(w.now)]
        res == ExtractChannelIdFromUrl(raw, w.resolve)
    IN  IF res.out.tag = "raise"
        THEN [out |-> Return(HandleCheckFailure(r0, raw, res.out)),
              fetched |-> res.fetched, detector |-> FALSE]
        ELSE LET r1 == DictSet(r0, "channel_id", res.out.val)
                 det == CheckChannelLiveStatus(res.out.val, w.live)
             IN  IF w.detectorFault.some
                 THEN [out |-> Return(HandleCheckFailure(r1, raw,
                                          Raise("Exception", w.detectorFault.v))),
                       fetched |-> res.fetched, detector |-> TRUE]
                 ELSE LET t == det.out.val
                          r2 == DictSet(r1, "is_live", t[1])
                          r3 == DictSetIfTruthy(r2, "livestream_url", t[2])
                          r4 == DictSetIfTruthy(r3, "title", t[3])
                          r5 == DictSetIfTruthy(r4, "error", t[4])
                      IN  [out |-> Return(r5),
                           fetched |-> res.fetched \o det.fetched, detector |-> TRUE]

-----------------------------------------------------------------------------
(* Notification sink: src/src/notifier.py *)

\* the character U+0060, which a string of this module cannot hold
GraveAccent == "U+0060"

Fence == <<GraveAccent, GraveAccent, GraveAccent>>

MsgErrorHead == <<"u", "n", "e", "x", "p", "e", "c", "t", "e", "d", " ", "e", "r", "r", "o", "r", " ", "o", "c", "c", "u", "r", "r", "e", "d", ":", "\n">> \o Fence \o <<"\n">>

MsgErrorTail == <<"\n">> \o Fence

MsgUnpackFew == <<"n", "o", "t", " ", "e", "n", "o", "u", "g", "h", " ", "v", "a", "l", "u", "e", "s", " ", "t", "o", " ", "u", "n", "p", "a", "c", "k", " ", "(", "e", "x", "p", "e", "c", "t", "e", "d", " ", "2", ",", " ", "g", "o", "t", " ", "1", ")">>

MsgUnpackMany == <<"t", "o", "o", " ", "m", "a", "n", "y", " ", "v", "a", "l", "u", "e", "s", " ", "t", "o", " ", "u", "n", "p", "a", "c", "k", " ", "(", "e", "x", "p", "e", "c", "t", "e", "d", " ", "2", ")">>

MsgNoneSplit == <<"'", "N", "o", "n", "e", "T", "y", "p", "e", "'", " ", "o", "b", "j", "e", "c", "t", " ", "h", "a", "s", " ", "n", "o", " ", "a", "t", "t", "r", "i", "b", "u", "t", "e", " ", "'", "s", "p", "l", "i", "t", "'">>

MsgPostFailed == <<"c", "o", "n", "n", "e", "c", "t", "i", "o", "n", " ", "r", "e", "f", "u", "s", "e", "d">>

\* str.split(c): the pieces of s between the occurrences of c
RECURSIVE SplitOn(_, _)
SplitOn(s, c) ==
    IF \A i \in 1..Len(s) : s[i] # c THEN <<s>>
    ELSE LET i == CHOOSE i \in 1..Len(s) : s[i] = c /\ \A j \in 1..(i - 1) : s[j] # c
         IN  <<SubSeq(s, 1, i - 1)>> \o SplitOn(SubSeq(s, i + 1, Len(s)), c)

\* _send_telegram_notification that tests TG_URL only
SendTelegramNotificationUrlOnly(message, e, sink) ==
    IF ~Truthy(e.tgUrl)
    THEN [out |-> Return(<<>>), posts |-> <<>>]
    ELSE IF ~e.tgRoute.some
    THEN [out |-> Raise("AttributeError", MsgNoneSplit), posts |-> <<>>]
    ELSE LET parts == SplitOn(e.tgRoute.v, ":")
         IN  IF Len(parts) # 2
             THEN [out |-> Raise("ValueError",
                                 IF Len(parts) < 2 THEN MsgUnpackFew ELSE MsgUnpackMany),
                   posts |-> <<>>]
             ELSE [out |-> IF sink = "transport"
                           THEN Raise("RequestException", MsgPostFailed)
                           ELSE Return(<<>>),
                   posts |-> << [url |-> e.tgUrl.v, botId |-> parts[1],
                                 chatId |-> parts[2], message |-> message] >>]

\* _send_telegram_notification(message) under the settings e, when the sink
\* answers the POST with sink ("ok", "rejected": a non-ok status, which is
\* only logged, or "transport": requests.post raises): the outcome and the
\* requests posted
SendTelegramNotification(message, e, sink) ==
    IF ~Truthy(e.tgUrl) \/ ~Truthy(e.tgRoute)
    THEN [out |-> Return(<<>>), posts |-> <<>>]
    ELSE LET parts == SplitOn(e.tgRoute.v, ":")
         IN  IF Len(parts) # 2
             THEN [out |-> Raise("ValueError",
                                 IF Len(parts) < 2 THEN MsgUnpackFew ELSE MsgUnpackMany),
                   posts |-> <<>>]
             ELSE [out |-> IF sink = "transport"
                           THEN Raise("RequestException", MsgPostFailed)
                           ELSE Return(<<>>),
                   posts |-> << [url |-> e.tgUrl.v, botId |-> parts[1],
                                 chatId |-> parts[2], message |-> message] >>]

\* the message of notify_live_stream(livestream_url, title)
LiveMessage(livestream_url, title) == title \o <<"\n">> \o livestream_url

\* the message of notify_error(error_message)
ErrorMessage(error_message) == MsgErrorHead \o error_message \o MsgErrorTail

-----------------------------------------------------------------------------
(* Background poller: src/src/scheduler.py *)

\* a call of notify_error or notify_live_stream made by check_channel
Notice(kind, url, message) == [kind |-> kind, url |-> url, message |-> message]

\* ChooseNotification that does not require a title
ChooseNotificationUntitled(t) ==
    IF Truthy(t[4]) THEN <<Notice("error", None, ErrorMessage(t[4].v))>>
    ELSE IF t[1] /\ Truthy(t[2])
         THEN <<Notice("live", t[2], LiveMessage(t[2].v, t[3].v))>>
         ELSE <<>>

\* the if / elif of check_channel on the detector's tuple
\* (is_live, livestream_url, title, error): the notify call it makes
ChooseNotification(t) ==
    IF Truthy(t[4]) THEN <<Notice("error", None, ErrorMessage(t[4].v))>>
    ELSE IF t[1] /\ Truthy(t[2]) /\ Truthy(t[3])
         THEN <<Notice("live", t[2], LiveMessage(t[2].v, t[3].v))>>
         ELSE <<>>

NoStatus == <<FALSE, None, None, None>>

\* one call of check_channel(): whether the detector ran, its tuple, the
\* URLs fetched, the notify calls made, the requests posted to the sink and
\* how the call ended
IdlePoll ==
    [ran |-> FALSE, status |-> NoStatus, fetched |-> <<>>, notified |-> <<>>,
     posts |-> <<>>, out |-> NoOutcome]

\* BeginCheck without the test of MONITORED_CHANNEL_ID
BeginCheckUnguarded(e, resp) ==
    LET det == CheckChannelLiveStatus(e.channel.v, resp)
    IN  [IdlePoll EXCEPT !.ran = TRUE, !.status = det.out.val, !.fetched = det.fetched]

\* check_channel up to the detector's return: nothing when
\* MONITORED_CHANNEL_ID is unset or empty
BeginCheck(e, resp) ==
    IF ~Truthy(e.channel) THEN IdlePoll
    ELSE LET det == CheckChannelLiveStatus(e.channel.v, resp)
         IN  [IdlePoll EXCEPT !.ran = TRUE, !.status = det.out.val, !.fetched = det.fetched]

\* the rest of check_channel: the notification chosen and sent
EndCheck(p, e, sink) ==
    LET notes == IF p.ran THEN ChooseNotification(p.status) ELSE <<>>
    IN  IF notes = <<>> THEN [p EXCEPT !.out = Return(<<>>)]
        ELSE LET sent == SendTelegramNotification(notes[1].message, e, sink)
             IN  [p EXCEPT !.notified = notes, !.posts = sent.posts, !.out = sent.out]

\* the classes caught by "except Exception"
ExceptionClasses == {"Exception", "ParsingError", "RequestException", "ValueError",
                     "AttributeError"}

\* An integer of any size: its sign and its decimal digits, the most
\* significant first and without leading zeros (none for 0)
IntValue(neg, mag) == [neg |-> neg /\ mag # <<>>, mag |-> mag]

Zero == IntValue(FALSE, <<>>)

\* the digits of a small natural number
RECURSIVE SmallDigits(_)
SmallDigits(n) ==
    IF n = 0 THEN <<>> ELSE SmallDigits(n \div 10) \o <<n % 10>>

\* the digits lo..hi of mag, times k, plus carry, for small k and carry: as
\* many digits as were multiplied, and what is carried over them; the low
\* half is multiplied first and its carry goes into the high half
RECURSIVE TimesCarry(_, _, _, _, _)
TimesCarry(mag, lo, hi, k, carry) ==
    IF lo = hi
    THEN [digits |-> <<(mag[lo] * k + carry) % 10>>,
          carry |-> (mag[lo] * k + carry) \div 10]
    ELSE LET mid == (lo + hi) \div 2
         IN  CHOOSE product \in
                 UNION { { [digits |-> high.digits \o low.digits, carry |-> high.carry] :
                             high \in {TimesCarry(mag, lo, mid, k, low.carry)} } :
                         low \in {TimesCarry(mag, mid + 1, hi, k, carry)} } : TRUE

\* the digits of mag * k, for small k
TimesSmall(mag, k) ==
    IF mag = <<>> THEN <<>>
    ELSE LET product == TimesCarry(mag, 1, Len(mag), k, 0)
         IN  SmallDigits(product.carry) \o product.digits

\* a >= b, for the digits of two natural numbers
AtLeast(a, b) ==
    \/ Len(a) > Len(b)
    \/ /\ Len(a) = Len(b)
       /\ \/ a = b
          \/ LET i == CHOOSE i \in 1..Len(a) :
                          a[i] # b[i] /\ \A j \in 1..(i - 1) : a[j] = b[j]
             IN  a[i] > b[i]

\* 2^1024 - 2^970, the least integer that does not convert to a float
FloatLimit ==
    <<
       1, 7, 9, 7, 6, 9, 3, 1, 3, 4, 8, 6, 2, 3, 1, 5, 8, 0, 7, 9, 3, 7, 2,
       8, 9, 7, 1, 4, 0, 5, 3, 0, 3, 4, 1, 5, 0, 7, 9, 9, 3, 4, 1, 3, 2, 7,
       1, 0, 0, 3, 7, 8, 2, 6, 9, 3, 6, 1, 7, 3, 7, 7, 8, 9, 8, 0, 4, 4, 4,
       9, 6, 8, 2, 9, 2, 7, 6, 4, 7, 5, 0, 9, 4, 6, 6, 4, 9, 0, 1, 7, 9, 7,
       7, 5, 8, 7, 2, 0, 7, 0, 9, 6, 3, 3, 0, 2, 8, 6, 4, 1, 6, 6, 9, 2, 8,
       8, 7, 9, 1, 0, 9, 4, 6, 5, 5, 5, 5, 4, 7, 8, 5, 1, 9, 4, 0, 4, 0, 2,
       6, 3, 0, 6, 5, 7, 4, 8, 8, 6, 7, 1, 5, 0, 5, 8, 2, 0, 6, 8, 1, 9, 0,
       8, 9, 0, 2, 0, 0, 0, 7, 0, 8, 3, 8, 3, 6, 7, 6, 2, 7, 3, 8, 5, 4, 8,
       4, 5, 8, 1, 7, 7, 1, 1, 5, 3, 1, 7, 6, 4, 4, 7, 5, 7, 3, 0, 2, 7, 0,
       0, 6, 9, 8, 5, 5, 5, 7, 1, 3, 6, 6, 9, 5, 9, 6, 2, 2, 8, 4, 2, 9, 1,
       4, 8, 1, 9, 8, 6, 0, 8, 3, 4, 9, 3, 6, 4, 7, 5, 2, 9, 2, 7, 1, 9, 0,
       7, 4, 1, 6, 8, 4, 4, 4, 3, 6, 5, 5, 1, 0, 7, 0, 4, 3, 4, 2, 7, 1, 1,
       5, 5, 9, 6, 9, 9, 5, 0, 8, 0, 9, 3, 0, 4, 2, 8, 8, 0, 1, 7, 7, 9, 0,
       4, 1, 7, 4, 4, 9, 7, 7, 9, 2 >>

\* asyncio.sleep(delay) for an int delay: a delay <= 0 returns at the next
\* iteration of the loop; otherwise loop.call_later adds the delay to the
\* loop's clock, a float, which raises OverflowError when the delay does
\* not convert to a float
SleepOverflows(delay) == ~delay.neg /\ AtLeast(delay.mag, FloatLimit)

\* AfterCheck without the except clause
AfterCheckUncaught(out, delay) ==
    IF out.tag = "raise" \/ SleepOverflows(delay) THEN "crashed" ELSE "sleeping"

\* where run_scheduled_task goes after check_channel ended with out: an
\* Exception is logged and the loop goes on to asyncio.sleep(interval),
\* which is outside the try: its OverflowError ends the task
AfterCheck(out, delay) ==
    IF out.tag = "raise" /\ out.exc \notin ExceptionClasses THEN "crashed"
    ELSE IF SleepOverflows(delay) THEN "crashed"
    ELSE "sleeping"

\* MayBeginCheck that does not wait for the sleep to end
MayBeginCheckEarly(t) == t \in {"entered", "woken", "sleeping"}

\* the task is at the top of the while loop: it has just entered it, or
\* asyncio.sleep has returned
MayBeginCheck(t) == t \in {"entered", "woken"}

\* task.cancel() for a task at t: a task that has ended is not cancelled
\* and cancel() returns False; otherwise the cancellation is requested
CancelRequested(t) == t \notin {"cancelled", "crashed"}

\* the next step of a task at t whose cancellation is requested:
\* CancelledError is raised where the task is suspended, which is outside
\* the try of the loop, and ends the task
AfterCancel(t) ==
    IF t = "crashed" THEN "crashed" ELSE "cancelled"

\* how lifespan ends after "await task": CancelledError is caught, the
\* exception of a task that had crashed is raised again
LifespanExit(t) ==
    IF t = "crashed" THEN "failed" ELSE "stopped"

\* AwaitReturns where the exit does not wait for the end of the task
AwaitReturnsEarly(t) == t \in {"cancelled", "crashed", "sleeping"}

\* "await task" returns to lifespan once the task has ended
AwaitReturns(t) == t \in {"cancelled", "crashed"}

\* the characters that int() reads as the digits 0, 1, ... 9: the decimal
\* digits of every script
DecimalDigits ==
    << {
         "0", "U+0660", "U+06F0", "U+07C0", "U+0966", "U+09E6", "U+0A66",
         "U+0AE6", "U+0B66", "U+0BE6", "U+0C66", "U+0CE6", "U+0D66",
         "U+0DE6", "U+0E50", "U+0ED0", "U+0F20", "U+1040", "U+1090",
         "U+17E0", "U+1810", "U+1946", "U+19D0", "U+1A80", "U+1A90",
         "U+1B50", "U+1BB0", "U+1C40", "U+1C50", "U+A620", "U+A8D0",
         "U+A900", "U+A9D0", "U+A9F0", "U+AA50", "U+ABF0", "U+FF10",
         "U+104A0", "U+10D30", "U+11066", "U+110F0", "U+11136", "U+111D0",
         "U+112F0", "U+11450", "U+114D0", "U+11650", "U+116C0", "U+11730",
         "U+118E0", "U+11950", "U+11C50", "U+11D50", "U+11DA0", "U+16A60",
         "U+16AC0", "U+16B50", "U+1D7CE", "U+1D7D8", "U+1D7E2", "U+1D7EC",
         "U+1D7F6", "U+1E140", "U+1E2F0", "U+1E950", "U+1FBF0" },
       {
         "1", "U+0661", "U+06F1", "U+07C1", "U+0967", "U+09E7", "U+0A67",
         "U+0AE7", "U+0B67", "U+0BE7", "U+0C67", "U+0CE7", "U+0D67",
         "U+0DE7", "U+0E51", "U+0ED1", "U+0F21", "U+1041", "U+1091",
         "U+17E1", "U+1811", "U+1947", "U+19D1", "U+1A81", "U+1A91",
         "U+1B51", "U+1BB1", "U+1C41", "U+1C51", "U+A621", "U+A8D1",
         "U+A901", "U+A9D1", "U+A9F1", "U+AA51", "U+ABF1", "U+FF11",
         "U+104A1", "U+10D31", "U+11067", "U+110F1", "U+11137", "U+111D1",
         "U+112F1", "U+11451", "U+114D1", "U+11651", "U+116C1", "U+11731",
         "U+118E1", "U+11951", "U+11C51", "U+11D51", "U+11DA1", "U+16A61",
         "U+16AC1", "U+16B51", "U+1D7CF", "U+1D7D9", "U+1D7E3", "U+1D7ED",
         "U+1D7F7", "U+1E141", "U+1E2F1", "U+1E951", "U+1FBF1" },
       {
         "2", "U+0662", "U+06F2", "U+07C2", "U+0968", "U+09E8", "U+0A68",
         "U+0AE8", "U+0B68", "U+0BE8", "U+0C68", "U+0CE8", "U+0D68",
         "U+0DE8", "U+0E52", "U+0ED2", "U+0F22", "U+1042", "U+1092",
         "U+17E2", "U+1812", "U+1948", "U+19D2", "U+1A82", "U+1A92",
         "U+1B52", "U+1BB2", "U+1C42", "U+1C52", "U+A622", "U+A8D2",
         "U+A902", "U+A9D2", "U+A9F2", "U+AA52", "U+ABF2", "U+FF12",
         "U+104A2", "U+10D32", "U+11068", "U+110F2", "U+11138", "U+111D2",
         "U+112F2", "U+11452", "U+114D2", "U+11652", "U+116C2", "U+11732",
         "U+118E2", "U+11952", "U+11C52", "U+11D52", "U+11DA2", "U+16A62",
         "U+16AC2", "U+16B52", "U+1D7D0", "U+1D7DA", "U+1D7E4", "U+1D7EE",
         "U+1D7F8", "U+1E142", "U+1E2F2", "U+1E952", "U+1FBF2" },
       {
         "3", "U+0663", "U+06F3", "U+07C3", "U+0969", "U+09E9", "U+0A69",
         "U+0AE9", "U+0B69", "U+0BE9", "U+0C69", "U+0CE9", "U+0D69",
         "U+0DE9", "U+0E53", "U+0ED3", "U+0F23", "U+1043", "U+1093",
         "U+17E3", "U+1813", "U+1949", "U+19D3", "U+1A83", "U+1A93",
         "U+1B53", "U+1BB3", "U+1C43", "U+1C53", "U+A623", "U+A8D3",
         "U+A903", "U+A9D3", "U+A9F3", "U+AA53", "U+ABF3", "U+FF13",
         "U+104A3", "U+10D33", "U+11069", "U+110F3", "U+11139", "U+111D3",
         "U+112F3", "U+11453", "U+114D3", "U+11653", "U+116C3", "U+11733",
         "U+118E3", "U+11953", "U+11C53", "U+11D53", "U+11DA3", "U+16A63",
         "U+16AC3", "U+16B53", "U+1D7D1", "U+1D7DB", "U+1D7E5", "U+1D7EF",
         "U+1D7F9", "U+1E143", "U+1E2F3", "U+1E953", "U+1FBF3" },
       {
         "4", "U+0664", "U+06F4", "U+07C4", "U+096A", "U+09EA", "U+0A6A",
         "U+0AEA", "U+0B6A", "U+0BEA", "U+0C6A", "U+0CEA", "U+0D6A",
         "U+0DEA", "U+0E54", "U+0ED4", "U+0F24", "U+1044", "U+1094",
         "U+17E4", "U+1814", "U+194A", "U+19D4", "U+1A84", "U+1A94",
         "U+1B54", "U+1BB4", "U+1C44", "U+1C54", "U+A624", "U+A8D4",
         "U+A904", "U+A9D4", "U+A9F4", "U+AA54", "U+ABF4", "U+FF14",
         "U+104A4", "U+10D34", "U+1106A", "U+110F4", "U+1113A", "U+111D4",
         "U+112F4", "U+11454", "U+114D4", "U+11654", "U+116C4", "U+11734",
         "U+118E4", "U+11954", "U+11C54", "U+11D54", "U+11DA4", "U+16A64",
         "U+16AC4", "U+16B54", "U+1D7D2", "U+1D7DC", "U+1D7E6", "U+1D7F0",
         "U+1D7FA", "U+1E144", "U+1E2F4", "U+1E954", "U+1FBF4" },
       {
         "5", "U+0665", "U+06F5", "U+07C5", "U+096B", "U+09EB", "U+0A6B",
         "U+0AEB", "U+0B6B", "U+0BEB", "U+0C6B", "U+0CEB", "U+0D6B",
         "U+0DEB", "U+0E55", "U+0ED5", "U+0F25", "U+1045", "U+1095",
         "U+17E5", "U+1815", "U+194B", "U+19D5", "U+1A85", "U+1A95",
         "U+1B55", "U+1BB5", "U+1C45", "U+1C55", "U+A625", "U+A8D5",
         "U+A905", "U+A9D5", "U+A9F5", "U+AA55", "U+ABF5", "U+FF15",
         "U+104A5", "U+10D35", "U+1106B", "U+110F5", "U+1113B", "U+111D5",
         "U+112F5", "U+11455", "U+114D5", "U+11655", "U+116C5", "U+11735",
         "U+118E5", "U+11955", "U+11C55", "U+11D55", "U+11DA5", "U+16A65",
         "U+16AC5", "U+16B55", "U+1D7D3", "U+1D7DD", "U+1D7E7", "U+1D7F1",
         "U+1D7FB", "U+1E145", "U+1E2F5", "U+1E955", "U+1FBF5" },
       {
         "6", "U+0666", "U+06F6", "U+07C6", "U+096C", "U+09EC", "U+0A6C",
         "U+0AEC", "U+0B6C", "U+0BEC", "U+0C6C", "U+0CEC", "U+0D6C",
         "U+0DEC", "U+0E56", "U+0ED6", "U+0F26", "U+1046", "U+1096",
         "U+17E6", "U+1816", "U+194C", "U+19D6", "U+1A86", "U+1A96",
         "U+1B56", "U+1BB6", "U+1C46", "U+1C56", "U+A626", "U+A8D6",
         "U+A906", "U+A9D6", "U+A9F6", "U+AA56", "U+ABF6", "U+FF16",
         "U+104A6", "U+10D36", "U+1106C", "U+110F6", "U+1113C", "U+111D6",
         "U+112F6", "U+11456", "U+114D6", "U+11656", "U+116C6", "U+11736",
         "U+118E6", "U+11956", "U+11C56", "U+11D56", "U+11DA6", "U+16A66",
         "U+16AC6", "U+16B56", "U+1D7D4", "U+1D7DE", "U+1D7E8", "U+1D7F2",
         "U+1D7FC", "U+1E146", "U+1E2F6", "U+1E956", "U+1FBF6" },
       {
         "7", "U+0667", "U+06F7", "U+07C7", "U+096D", "U+09ED", "U+0A6D",
         "U+0AED", "U+0B6D", "U+0BED", "U+0C6D", "U+0CED", "U+0D6D",
         "U+0DED", "U+0E57", "U+0ED7", "U+0F27", "U+1047", "U+1097",
         "U+17E7", "U+1817", "U+194D", "U+19D7", "U+1A87", "U+1A97",
         "U+1B57", "U+1BB7", "U+1C47", "U+1C57", "U+A627", "U+A8D7",
         "U+A907", "U+A9D7", "U+A9F7", "U+AA57", "U+ABF7", "U+FF17",
         "U+104A7", "U+10D37", "U+1106D", "U+110F7", "U+1113D", "U+111D7",
         "U+112F7", "U+11457", "U+114D7", "U+11657", "U+116C7", "U+11737",
         "U+118E7", "U+11957", "U+11C57", "U+11D57", "U+11DA7", "U+16A67",
         "U+16AC7", "U+16B57", "U+1D7D5", "U+1D7DF", "U+1D7E9", "U+1D7F3",
         "U+1D7FD", "U+1E147", "U+1E2F7", "U+1E957", "U+1FBF7" },
       {
         "8", "U+0668", "U+06F8", "U+07C8", "U+096E", "U+09EE", "U+0A6E",
         "U+0AEE", "U+0B6E", "U+0BEE", "U+0C6E", "U+0CEE", "U+0D6E",
         "U+0DEE", "U+0E58", "U+0ED8", "U+0F28", "U+1048", "U+1098",
         "U+17E8", "U+1818", "U+194E", "U+19D8", "U+1A88", "U+1A98",
         "U+1B58", "U+1BB8", "U+1C48", "U+1C58", "U+A628", "U+A8D8",
         "U+A908", "U+A9D8", "U+A9F8", "U+AA58", "U+ABF8", "U+FF18",
         "U+104A8", "U+10D38", "U+1106E", "U+110F8", "U+1113E", "U+111D8",
         "U+112F8", "U+11458", "U+114D8", "U+11658", "U+116C8", "U+11738",
         "U+118E8", "U+11958", "U+11C58", "U+11D58", "U+11DA8", "U+16A68",
         "U+16AC8", "U+16B58", "U+1D7D6", "U+1D7E0", "U+1D7EA", "U+1D7F4",
         "U+1D7FE", "U+1E148", "U+1E2F8", "U+1E958", "U+1FBF8" },
       {
         "9", "U+0669", "U+06F9", "U+07C9", "U+096F", "U+09EF", "U+0A6F",
         "U+0AEF", "U+0B6F", "U+0BEF", "U+0C6F", "U+0CEF", "U+0D6F",
         "U+0DEF", "U+0E59", "U+0ED9", "U+0F29", "U+1049", "U+1099",
         "U+17E9", "U+1819", "U+194F", "U+19D9", "U+1A89", "U+1A99",
         "U+1B59", "U+1BB9", "U+1C49", "U+1C59", "U+A629", "U+A8D9",
         "U+A909", "U+A9D9", "U+A9F9", "U+AA59", "U+ABF9", "U+FF19",
         "U+104A9", "U+10D39", "U+1106F", "U+110F9", "U+1113F", "U+111D9",
         "U+112F9", "U+11459", "U+114D9", "U+11659", "U+116C9", "U+11739",
         "U+118E9", "U+11959", "U+11C59", "U+11D59", "U+11DA9", "U+16A69",
         "U+16AC9", "U+16B59", "U+1D7D7", "U+1D7E1", "U+1D7EB", "U+1D7F5",
         "U+1D7FF", "U+1E149", "U+1E2F9", "U+1E959", "U+1FBF9" } >>

DecimalDigit == UNION {DecimalDigits[n] : n \in 1..10}

DigitValue(c) == CHOOSE n \in 0..9 : c \in DecimalDigits[n + 1]

\* s from its character at from on is digits, with single underscores
\* between them
DigitGroups(s, from) ==
    /\ from <= Len(s)
    /\ \A i \in from..Len(s) :
          \/ s[i] \in DecimalDigit
          \/ s[i] = "_" /\ from < i /\ i < Len(s) /\ s[i + 1] # "_"

\* the values of the digits of s from its character at from on, the
\* underscores left out
DigitValues(s, from) ==
    SelectSeq([i \in 1..(Len(s) - from + 1) |->
                  IF s[i + from - 1] = "_" THEN -1 ELSE DigitValue(s[i + from - 1])],
              LAMBDA v : v >= 0)

\* d without its leading zeros
DropLeadingZeros(d) ==
    IF \A i \in 1..Len(d) : d[i] = 0 THEN <<>>
    ELSE LET lo == CHOOSE i \in 1..Len(d) : d[i] # 0 /\ \A j \in 1..(i - 1) : d[j] = 0
         IN  SubSeq(d, lo, Len(d))

\* sys.int_info.default_max_str_digits: int() refuses a text of more digits
IntMaxStrDigits == 4300

\* an exception of class cls whose text nothing in the program reads
RaiseClass(cls) == [tag |-> "raise", exc |-> cls]

\* the whitespace that int() skips: that of str.strip() without the four
\* separators U+001C..U+001F
IntWhitespace == Whitespace \ {"U+001C", "U+001D", "U+001E", "U+001F"}

\* s without the leading and trailing characters that int() skips
IntStrip(s) ==
    IF \A i \in 1..Len(s) : s[i] \in IntWhitespace THEN <<>>
    ELSE LET lo == CHOOSE i \in 1..Len(s) :
                       s[i] \notin IntWhitespace /\ \A j \in 1..(i - 1) : s[j] \in IntWhitespace
             hi == CHOOSE i \in 1..Len(s) :
                       s[i] \notin IntWhitespace /\ \A j \in (i + 1)..Len(s) : s[j] \in IntWhitespace
         IN  SubSeq(s, lo, hi)

\* int() for a text t without surrounding whitespace: a sign is allowed,
\* then decimal digits, at most 4300 of them, which single underscores may
\* separate; anything else is a ValueError
ParseStripped(t) ==
    LET signed == t # <<>> /\ t[1] \in {"+", "-"}
        from == IF signed THEN 2 ELSE 1
    IN  IF ~DigitGroups(t, from) THEN RaiseClass("ValueError")
        ELSE CHOOSE n \in
                 { IF Len(digits) > IntMaxStrDigits THEN RaiseClass("ValueError")
                   ELSE Return(IntValue(signed /\ t[1] = "-", DropLeadingZeros(digits))) :
                   digits \in {DigitValues(t, from)} } : TRUE

\* int(s) for a str: the whitespace around the number is skipped
ParseInt(s) == CHOOSE n \in {ParseStripped(t) : t \in {IntStrip(s)}} : TRUE

DefaultFrequency == <<"3", "0">>

SecondsPerMinute == 60

\* int(os.getenv("POLL_FREQUENCY_MINUTES", "30")) * 60
PollInterval(e) ==
    LET text == IF e.freq.some THEN e.freq.v ELSE DefaultFrequency
    IN  CHOOSE seconds \in
            { IF n.tag = "raise" THEN n
              ELSE Return(IntValue(n.val.neg, TimesSmall(n.val.mag, SecondsPerMinute))) :
              n \in {ParseInt(text)} } : TRUE

-----------------------------------------------------------------------------
(* Bounds and the inputs drawn from them *)

MaxPad == 1

MaxName == 2

MaxLinks == 1

MaxMetas == 1

SeqsUpTo(S, n) == UNION {[1..k -> S] : k \in 0..n}

IdA == <<"U", "C", "j", "-", "X", "m", "8", "j", "6", "W", "B", "g", "K", "Y", "8", "O", "G", "7", "s", "9", "r", "2", "v", "Q">>

IdB == <<"U", "C", "1", "0", "1", "o", "-", "v", "Q", "2", "i", "O", "j", "9", "v", "r", "0", "0", "J", "U", "l", "y", "K", "w">>

VideoA == <<"c", "z", "o", "E", "A", "K", "X", "9", "a", "a", "M">>

VideoB == <<"d", "Q", "w", "4", "w", "9", "W", "g", "X", "c", "Q">>

LeadPads == SeqsUpTo({VerticalTab}, MaxPad)

TrailPads == SeqsUpTo({"\n"}, MaxPad)

Names == SeqsUpTo({"a", " "}, MaxName)

Schemes ==
    { <<>>,
      <<"@">>,
      <<"h", "t", "t", "p", "s", ":", "/", "/", "w", "w", "w", ".", "y", "o", "u", "t", "u", "b", "e", ".", "c", "o", "m", "/">>,
      <<"h", "t", "t", "p", "s", ":", "/", "/", "w", "w", "w", ".", "y", "o", "u", "t", "u", "b", "e", ".", "c", "o", "m", "/", "@">>,
      <<"h", "t", "t", "p", "s", ":", "/", "/", "w", "w", "w", ".", "y", "o", "u", "t", "u", "b", "e", ".", "c", "o", "m", "/", "c", "/">>,
      <<"y", "o", "u", "t", "u", "b", "e", ".", "c", "o", "m", "/", "u", "s", "e", "r", "/">>,
      <<"h", "t", "t", "p", "s", ":", "/", "/", "y", "o", "u", "t", "u", ".", "b", "e", "/">>,
      <<"h", "t", "t", "p", "s", ":", "/", "/", "e", "x", "a", "m", "p", "l", "e", ".", "c", "o", "m", "/", "c", "/", "@">>,
      <<"h", "t", "t", "p", ":", "/", "/">> }

IdTails ==
    { <<>>,
      IdA,
      SubSeq(IdA, 1, Len(IdA) - 1),
      <<"U", "C">> \o IdB }

\* the strings handed to the resolver
Inputs ==
    { lead \o scheme \o name \o tail \o trail :
        lead \in LeadPads, scheme \in Schemes, name \in Names,
        tail \in IdTails, trail \in TrailPads }

\* the strings handed to the detector as channel_id (the poller passes the
\* MONITORED_CHANNEL_ID setting unvalidated)
ChannelArgs == { IdA, IdB, <<"a">> }

Failures ==
    { Failure("transport", <<>>),
      Failure("transport", <<"t", "i", "m", "e", "d", " ", "o", "u", "t">>),
      Failure("status", <<"4", "0", "4", " ", "C", "l", "i", "e", "n", "t", " ", "E", "r", "r", "o", "r">>),
      Failure("fault", <<"b", "o", "o", "m">>),
      Failure("parsefault", <<"b", "o", "o", "m">>) }

\* canonical targets of pages answering the resolver's GET
ChannelHrefs ==
    { None,
      Some(<<>>),
      Some(ChannelBase \o IdB),
      Some(WatchBase \o VideoA) }

\* canonical targets of pages answering the detector's GET
LiveHrefs ==
    { None,
      Some(<<>>),
      Some(ChannelBase \o IdB),
      Some(ChannelBase \o IdB \o LiveSuffix),
      Some(WatchBase \o VideoA),
      Some(WatchBase \o VideoA \o <<"x">>),
      Some(WatchBase \o SubSeq(VideoA, 1, Len(VideoA) - 1)),
      Some(WatchBase \o SubSeq(VideoA, 1, Len(VideoA) - 1) \o <<"&", "t", "=", "1", "s">>),
      Some(WatchBase \o <<"&">> \o WatchBase \o VideoB \o <<"&">> \o WatchBase \o VideoA) }

Titles == { None, Some(<<>>), Some(<<"M", "o", "r", "n", "i", "n", "g", " ", "S", "h", "o", "w">>) }

ResolveResponses ==
    Failures \cup { Page(canon, <<>>) : canon \in SeqsUpTo(ChannelHrefs, MaxLinks) }

LiveResponses ==
    Failures \cup { Page(canon, metas) : canon \in SeqsUpTo(LiveHrefs, MaxLinks),
                                         metas \in SeqsUpTo(Titles, MaxMetas) }

NoResponse == Page(<<>>, <<>>)

\* readings of the clock
Clocks ==
    { Clock(<<"2", "0", "2", "6", "-", "1", "0", "-", "3", "0", "T", "0", "8", ":", "5", "4", ":", "0", "0">>, 0),
      Clock(<<"2", "0", "2", "6", "-", "1", "0", "-", "3", "0", "T", "0", "8", ":", "5", "4", ":", "0", "0">>, 123456),
      Clock(<<"2", "0", "2", "6", "-", "1", "0", "-", "3", "0", "T", "2", "3", ":", "5", "9", ":", "5", "9">>, 42) }

\* what the world answers during one call: the resolver's GET, the
\* detector's GET, the exception of a replaced detector, the clock
WebAt(resolve, live, fault, now) ==
    [resolve |-> resolve, live |-> live, detectorFault |-> fault, now |-> now]

Web(resolve, live, fault) == WebAt(resolve, live, fault, Clock(<<"2", "0", "2", "6", "-", "1", "0", "-", "3", "0", "T", "0", "8", ":", "5", "4", ":", "0", "0">>, 0))

\* inputs and answers of the caller-facing check
CheckInputs ==
    { IdA,
      <<" ">> \o ChannelBase \o IdA \o <<"\n">>,
      <<"@", "R", "a", "i", "l", "C", "o", "w", "G", "i", "r", "l">>,
      <<"R", "a", "i", "l", "C", "o", "w", "G", "i", "r", "l", " ">>,
      <<"h", "t", "t", "p", "s", ":", "/", "/", "w", "w", "w", ".", "y", "o", "u", "t", "u", "b", "e", ".", "c", "o", "m", "/", "c", "/", "R", "a", "i", "l", "C", "o", "w", "G", "i", "r", "l">>,
      <<"h", "t", "t", "p", "s", ":", "/", "/", "e", "x", "a", "m", "p", "l", "e", ".", "c", "o", "m", "/", "R", "a", "i", "l", "C", "o", "w", "G", "i", "r", "l">> }

CheckResolveResponses ==
    { Failure("transport", <<"t", "i", "m", "e", "d", " ", "o", "u", "t">>),
      Failure("fault", <<>>),
      Page(<<>>, <<>>),
      Page(<<Some(ChannelBase \o IdB)>>, <<>>),
      Page(<<Some(WatchBase \o VideoA)>>, <<>>) }

CheckLiveResponses ==
    { Failure("status", <<"4", "0", "4", " ", "C", "l", "i", "e", "n", "t", " ", "E", "r", "r", "o", "r">>),
      Failure("fault", <<"b", "o", "o", "m">>),
      Failure("parsefault", <<>>),
      Page(<<>>, <<>>),
      Page(<<Some(ChannelBase \o IdB \o LiveSuffix)>>, <<Some(<<"M", "o", "r", "n", "i", "n", "g", " ", "S", "h", "o", "w">>)>>),
      Page(<<Some(WatchBase \o VideoA)>>, <<Some(<<"M", "o", "r", "n", "i", "n", "g", " ", "S", "h", "o", "w">>)>>),
      Page(<<Some(WatchBase \o VideoA)>>, <<Some(<<>>)>>),
      Page(<<Some(WatchBase \o VideoA)>>, <<>>) }

DetectorFaults == { None, Some(<<>>), Some(<<"T", "e", "s", "t", " ", "u", "n", "e", "x", "p", "e", "c", "t", "e", "d", " ", "e", "r", "r", "o", "r">>) }

\* the settings of the process: os.getenv of MONITORED_CHANNEL_ID, TG_URL,
\* TG_ROUTE and POLL_FREQUENCY_MINUTES (None when unset)
Env(channel, tgUrl, tgRoute, freq) ==
    [channel |-> channel, tgUrl |-> tgUrl, tgRoute |-> tgRoute, freq |-> freq]

NoEnv == Env(None, None, None, None)

\* values of POLL_FREQUENCY_MINUTES: unset; 10; no number; a number behind a
\* character that int() does not skip; 3 in Arabic-Indic digits; 10^MaxExponent,
\* whose interval no float holds; MaxZeros zeros, more than int() reads
MaxExponent == 400

MaxZeros == 4301

Frequencies ==
    { None,
      Some(<<" ", "1", "_", "0", " ">>),
      Some(<<"s", "o", "o", "n">>),
      Some(<<"5", "U+001C">>),
      Some(<<"U+0663">>),
      Some(<<"1">> \o [i \in 1..MaxExponent |-> "0"]),
      Some([i \in 1..MaxZeros |-> "0"]) }

Envs ==
    { Env(c, u, r, f) :
        c \in { None, Some(<<>>), Some(IdA) },
        u \in { None, Some(<<>>), Some(<<"h", "t", "t", "p", ":", "/", "/", "t", "g", "/", "s", "e", "n", "d">>) },
        r \in { None, Some(<<>>), Some(<<"1", "2", ":", "3", "4">>), Some(<<"1", "2", "3", "4">>), Some(<<"1", ":", "2", ":", "3">>) },
        f \in Frequencies }

\* answers to the poller's GET of the live page
PollResponses ==
    { Failure("transport", <<"t", "i", "m", "e", "d", " ", "o", "u", "t">>),
      Page(<<>>, <<>>),
      Page(<<Some(ChannelBase \o IdA \o LiveSuffix)>>, <<Some(<<"M", "o", "r", "n", "i", "n", "g", " ", "S", "h", "o", "w">>)>>),
      Page(<<Some(WatchBase \o VideoA)>>, <<Some(<<"M", "o", "r", "n", "i", "n", "g", " ", "S", "h", "o", "w">>)>>),
      Page(<<Some(WatchBase \o VideoB)>>, <<Some(<<"M", "o", "r", "n", "i", "n", "g", " ", "S", "h", "o", "w">>)>>),
      Page(<<Some(WatchBase \o VideoA)>>, <<Some(<<>>)>>),
      Page(<<Some(WatchBase \o VideoA)>>, <<>>) }

\* answers of the sink to a POST
SinkResponses == {"ok", "rejected", "transport"}

-----------------------------------------------------------------------------
(* The three entry points as state machines: Init draws the call's         *)
(* argument and the network's answers, the action performs the call.       *)

InitResolve ==
    /\ pc = "idle"
    /\ input \in Inputs
    /\ web \in { Web(r, NoResponse, None) : r \in ResolveResponses }
    /\ fetches = <<>>
    /\ branch = "none"
    /\ outcome = NoOutcome
    /\ calls = <<>>
    /\ env = NoEnv
    /\ app = "off"
    /\ task = "none"
    /\ cancelling = FALSE
    /\ interval = Zero
    /\ poll = IdlePoll
    /\ last = IdlePoll

InitDetect ==
    /\ pc = "idle"
    /\ input \in ChannelArgs
    /\ web \in { Web(NoResponse, l, None) : l \in LiveResponses }
    /\ fetches = <<>>
    /\ branch = "none"
    /\ outcome = NoOutcome
    /\ calls = <<>>
    /\ env = NoEnv
    /\ app = "off"
    /\ task = "none"
    /\ cancelling = FALSE
    /\ interval = Zero
    /\ poll = IdlePoll
    /\ last = IdlePoll

InitCheck ==
    /\ pc = "idle"
    /\ input \in CheckInputs
    /\ web \in { WebAt(r, l, f, now) : r \in CheckResolveResponses, l \in CheckLiveResponses,
                                         f \in DetectorFaults, now \in Clocks }
    /\ fetches = <<>>
    /\ branch = "none"
    /\ outcome = NoOutcome
    /\ calls = <<>>
    /\ env = NoEnv
    /\ app = "off"
    /\ task = "none"
    /\ cancelling = FALSE
    /\ interval = Zero
    /\ poll = IdlePoll
    /\ last = IdlePoll


\* a call of extract_channel_id_from_url(input)
Resolve ==
    /\ pc = "idle"
    /\ LET r == ExtractChannelIdFromUrl(input, web.resolve)
       IN  /\ outcome' = r.out
           /\ fetches' = fetches \o r.fetched
           /\ branch' = r.branch
    /\ calls' = <<"extract_channel_id_from_url">>
    /\ pc' = "resolved"
    /\ UNCHANGED <<input, web, pollerVars>>

\* a call of check_channel_live_status(input)
Detect ==
    /\ pc = "idle"
    /\ LET r == CheckChannelLiveStatus(input, web.live)
       IN  /\ outcome' = r.out
           /\ fetches' = fetches \o r.fetched
    /\ calls' = <<"check_channel_live_status">>
    /\ pc' = "detected"
    /\ UNCHANGED <<input, web, branch, pollerVars>>

\* a call of YouTubeService.check_if_live(input)
Check ==
    /\ pc = "idle"
    /\ LET r == CheckIfLive(input, web)
       IN  /\ outcome' = r.out
           /\ fetches' = fetches \o r.fetched
           /\ calls' = IF r.detector
                       THEN <<"extract_channel_id_from_url", "check_channel_live_status">>
                       ELSE <<"extract_channel_id_from_url">>
    /\ pc' = "checked"
    /\ UNCHANGED <<input, web, branch, pollerVars>>

NextResolve == Resolve

NextDetect == Detect

NextCheck == Check

SpecResolve == InitResolve /\ [][NextResolve]_vars

SpecDetect == InitDetect /\ [][NextDetect]_vars

SpecCheck == InitCheck /\ [][NextCheck]_vars

-----------------------------------------------------------------------------
(* The background poller as a state machine.  app is the application's     *)
(* lifespan ("starting", "running", then "stopped", or "failed" when its    *)
(* exit raised), task the position of run_scheduled_task: "created" (not yet *)
(* run), "entered" (interval computed, at the top of the loop), "checking"  *)
(* (inside check_channel), "sleeping" (in asyncio.sleep), "woken" (the      *)
(* sleep is over), "cancelled", "crashed" (ended by an exception).           *)
(* cancelling says that lifespan has requested the task's cancellation and  *)
(* the task has yet to take it (task.cancelling() > 0).  poll is the check  *)
(* in progress, last the check completed most recently.                     *)

InitPoller ==
    /\ pc = "poller"
    /\ input = <<>>
    /\ web = Web(NoResponse, NoResponse, None)
    /\ fetches = <<>>
    /\ branch = "none"
    /\ outcome = NoOutcome
    /\ calls = <<>>
    /\ env \in Envs
    /\ app = "starting"
    /\ task = "none"
    /\ cancelling = FALSE
    /\ interval = Zero
    /\ poll = IdlePoll
    /\ last = IdlePoll

\* lifespan up to its yield: asyncio.create_task(run_scheduled_task())
Startup ==
    /\ app = "starting"
    /\ app' = "running"
    /\ task' = "created"
    /\ UNCHANGED <<callVars, env, cancelling, interval, poll, last>>

\* the task's first step: the interval is computed before the loop
TaskStart ==
    /\ task = "created"
    /\ ~cancelling
    /\ \E i \in {PollInterval(env)} :
          IF i.tag = "raise"
          THEN task' = "crashed" /\ interval' = interval
          ELSE task' = "entered" /\ interval' = i.val
    /\ UNCHANGED <<callVars, env, app, cancelling, poll, last>>

\* check_channel() is entered and the detector has answered
PollBegin ==
    /\ MayBeginCheck(task)
    /\ ~cancelling
    /\ \E resp \in PollResponses : poll' = BeginCheck(env, resp)
    /\ task' = "checking"
    /\ UNCHANGED <<callVars, env, app, cancelling, interval, last>>

\* check_channel() notifies and ends; the loop goes to sleep
PollEnd ==
    /\ task = "checking"
    /\ \E sink \in SinkResponses :
          LET p == EndCheck(poll, env, sink)
          IN  /\ last' = p
              /\ task' = AfterCheck(p.out, interval)
    /\ poll' = IdlePoll
    /\ UNCHANGED <<callVars, env, app, cancelling, interval>>

\* asyncio.sleep(interval) returns; the timer of a sleep that was cancelled
\* does nothing
SleepElapsed ==
    /\ task = "sleeping"
    /\ ~cancelling
    /\ task' = "woken"
    /\ UNCHANGED <<callVars, env, app, cancelling, interval, poll, last>>

\* lifespan after its yield: task.cancel() and "await task".  lifespan runs
\* only while the task is suspended, not inside a check.  A task that has
\* crashed is done: cancel() does nothing, "await task" raises its
\* exception at once and the exit ends in this step.  Otherwise the
\* cancellation is requested and lifespan waits for the task, which has not
\* run yet.
Shutdown ==
    /\ app = "running"
    /\ ~cancelling
    /\ task \in {"created", "sleeping", "woken", "crashed"}
    /\ cancelling' = CancelRequested(task)
    /\ app' = IF CancelRequested(task) THEN app ELSE LifespanExit(task)
    /\ UNCHANGED <<callVars, env, task, interval, poll, last>>

\* the task's next step after task.cancel(): it takes the CancelledError
\* and ends
TaskCancelled ==
    /\ cancelling
    /\ task \in {"created", "sleeping", "woken"}
    /\ task' = AfterCancel(task)
    /\ UNCHANGED <<callVars, env, app, cancelling, interval, poll, last>>

\* "await task" returns with the CancelledError of the cancelled task, which
\* lifespan catches: the exit ends
LifespanEnd ==
    /\ app = "running"
    /\ cancelling
    /\ AwaitReturns(task)
    /\ app' = LifespanExit(task)
    /\ UNCHANGED <<callVars, env, task, cancelling, interval, poll, last>>

NextPoller ==
    \/ Startup \/ TaskStart \/ PollBegin \/ PollEnd \/ SleepElapsed
    \/ Shutdown \/ TaskCancelled \/ LifespanEnd

SpecPoller == InitPoller /\ [][NextPoller]_vars

\* the event loop runs a task that can run, and timers fire
PollerFairness ==
    /\ WF_vars(Startup)
    /\ WF_vars(TaskStart)
    /\ WF_vars(PollBegin)
    /\ WF_vars(PollEnd)
    /\ WF_vars(SleepElapsed)
    /\ WF_vars(TaskCancelled)
    /\ WF_vars(LifespanEnd)

SpecPollerLive == SpecPoller /\ PollerFairness

-----------------------------------------------------------------------------
(* The whole program *)

Init == InitResolve \/ InitDetect \/ InitCheck \/ InitPoller

Next == Resolve \/ Detect \/ Check \/ NextPoller

Spec == Init /\ [][Next]_vars

-----------------------------------------------------------------------------
(* Properties of the resolver (checked under SpecResolve) *)

\* the channel-identifier pattern: UC and 22 characters of [a-zA-Z0-9_-]
WellFormedId(s) ==
    /\ Len(s) = 24
    /\ s[1] = "U"
    /\ s[2] = "C"
    /\ \A i \in 3..24 : s[i] \in IdChars

\* a channel identifier starts at position i of s
IdAtPos(s, i) == i + 23 <= Len(s) /\ WellFormedId(SubSeq(s, i, i + 23))

\* the positions of s where a channel identifier starts
IdPositions(s) == {i \in 1..Len(s) : IdAtPos(s, i)}

\* C1: whatever the resolver returns, on the whole-input, the substring and
\* the fetched-page path alike, is a well-formed channel identifier (UC and
\* 22 characters of [a-zA-Z0-9_-]); otherwise the call fails.
C1_ReturnsOnlyChannelIds ==
    pc = "resolved" =>
        /\ outcome.tag \in {"return", "raise"}
        /\ outcome.tag = "return" => WellFormedId(outcome.val)

C1_Witness ==
    /\ pc = "resolved"
    /\ outcome.tag = "return"
    /\ fetches # <<>>
    /\ input # <<>>
    /\ input[Len(input)] = "\n"

\* C2: when the trimmed input contains a channel identifier, the resolver
\* returns the leftmost one (the trimmed input itself when all of it is
\* one) without fetching, whatever URL shape the input has and whatever the
\* network would have answered.
C2_EmbeddedIdWinsWithoutFetch ==
    pc = "resolved" =>
        LET trimmed == Strip(input)
            at == IdPositions(trimmed)
        IN  at # {} =>
              /\ outcome.tag = "return"
              /\ fetches = <<>>
              /\ \E i \in at :
                    /\ \A j \in at : i <= j
                    /\ outcome.val = SubSeq(trimmed, i, i + 23)
              /\ WellFormedId(trimmed) => outcome.val = trimmed

C2_Witness ==
    /\ pc = "resolved"
    /\ StartsWith(Strip(input), <<"@">>)
    /\ Cardinality(IdPositions(Strip(input))) >= 2
    /\ outcome = Return(SubSeq(<<"U", "C">> \o IdB, 1, 24))
    /\ fetches = <<>>

\* h is a handle name in the sense of C3
HandleName(h) ==
    /\ ~StartsWith(h, <<"@">>)
    /\ IdPositions(h) = {}
    /\ ~Contains(h, YOUTUBE_DOMAIN)
    /\ ~Contains(h, YOUTUBE_SHORT_DOMAIN)
    /\ ~StartsWith(h, <<"h", "t", "t", "p", ":", "/", "/">>)
    /\ ~StartsWith(h, <<"h", "t", "t", "p", "s", ":", "/", "/">>)

NoEdgeWhitespace(h) ==
    h = <<>> \/ (h[1] \notin Whitespace /\ h[Len(h)] \notin Whitespace)

\* the input is h or "@" + h: that h
HandleOfInput == IF StartsWith(input, <<"@">>) THEN Tail(input) ELSE input

\* one fetch of https://www.youtube.com/@h, whose result is the call's
FetchedHandlePage(h) ==
    /\ fetches = << HandleBase \o <<"@">> \o h >>
    /\ outcome = WrapResolveFailure(
                    FetchChannelIdFromWeb(HandleBase \o <<"@">> \o h, web.resolve))

\* C3 as stated: for every handle name h, resolve("@" + h) and resolve(h)
\* each fetch exactly https://www.youtube.com/@h and return what it yields.
C3_AsStated ==
    (pc = "resolved" /\ HandleName(HandleOfInput)) => FetchedHandlePage(HandleOfInput)

\* C3 amended: the same for every handle name h without leading or trailing
\* whitespace.
C3_HandlePrefixNormalized ==
    (pc = "resolved" /\ HandleName(HandleOfInput) /\ NoEdgeWhitespace(HandleOfInput))
        => FetchedHandlePage(HandleOfInput)

C3_Witness ==
    /\ pc = "resolved"
    /\ input = <<"a", "a">>
    /\ fetches = << HandleBase \o <<"@", "a", "a">> >>
    /\ outcome = Return(IdB)

\* s is an absolute URL outside the platform, without identifier
Unclassifiable(s) ==
    /\ StartsWith(s, <<"h", "t", "t", "p", ":", "/", "/">>) \/ StartsWith(s, <<"h", "t", "t", "p", "s", ":", "/", "/">>)
    /\ ~Contains(s, YOUTUBE_DOMAIN)
    /\ ~Contains(s, YOUTUBE_SHORT_DOMAIN)
    /\ IdPositions(s) = {}

\* C4: an absolute http(s) URL that names neither platform domain and holds
\* no identifier fails with a ParsingError reporting that the input could
\* not be parsed, without a fetch; and that failure occurs in no other case.
C4_UnclassifiableFailsWithoutFetch ==
    pc = "resolved" =>
        LET trimmed == Strip(input)
            unclassifiable == Unclassifiable(trimmed)
        IN  /\ unclassifiable =>
                  /\ outcome.tag = "raise"
                  /\ outcome.exc = "ParsingError"
                  /\ Contains(outcome.val, MsgCouldNotParse \o trimmed)
                  /\ fetches = <<>>
            /\ (branch = "unparsed" \/ (outcome.tag = "raise" /\ fetches = <<>>))
                  => unclassifiable

C4_Witness ==
    /\ pc = "resolved"
    /\ Unclassifiable(Strip(input))
    /\ Contains(input, <<"@">>)
    /\ outcome.tag = "raise"
    /\ web.resolve.kind = "page"
    /\ web.resolve.canon # <<>>

\* C5: the resolver fails only with ParsingError; on the fetching path a
\* transport error, a bad HTTP status, any other exception, a missing or
\* empty canonical link and a canonical link without identifier all become a
\* ParsingError whose message contains the cause's description, after
\* exactly one fetch.
C5_FailsOnlyWithParsingError ==
    pc = "resolved" =>
        /\ outcome.tag = "raise" => outcome.exc = "ParsingError"
        /\ Len(fetches) <= 1
        /\ (fetches # <<>> /\ web.resolve.kind # "page") =>
              /\ outcome.tag = "raise"
              /\ Contains(outcome.val, web.resolve.msg)
              /\ outcome.val # web.resolve.msg
        /\ (fetches # <<>> /\ web.resolve.kind = "page"
              /\ ~Truthy(FindCanonicalHref(web.resolve))) =>
              /\ outcome.tag = "raise"
              /\ Contains(outcome.val, MsgNoCanonicalIn \o fetches[1])
        /\ (fetches # <<>> /\ web.resolve.kind = "page"
              /\ Truthy(FindCanonicalHref(web.resolve))
              /\ IdPositions(web.resolve.canon[1].v) = {}) =>
              /\ outcome.tag = "raise"
              /\ Contains(outcome.val, MsgNoIdIn \o web.resolve.canon[1].v)

C5_Witness ==
    /\ pc = "resolved"
    /\ Len(fetches) = 1
    /\ web.resolve.kind = "status"
    /\ web.resolve.msg # <<>>
    /\ outcome.tag = "raise"

-----------------------------------------------------------------------------
(* Properties of the detector (checked under SpecDetect) *)

\* the first canonical link of the live page, when the fetch succeeded
LiveHref == IF web.live.kind = "page" THEN FindCanonicalHref(web.live) ELSE None

\* a watch-page URL with an 11-character broadcast identifier starts at i
WatchTargetAt(s, i) ==
    /\ OccursAt(s, <<"y", "o", "u", "t", "u", "b", "e", ".", "c", "o", "m", "/", "w", "a", "t", "c", "h", "?", "v", "=">>, i)
    /\ i + 30 <= Len(s)
    /\ \A k \in 20..30 : s[i + k] \in IdChars

WatchPositions(s) == {i \in 1..Len(s) : WatchTargetAt(s, i)}

\* the description of what went wrong in a failed check
UnderlyingError ==
    IF web.live.kind # "page" THEN web.live.msg ELSE MsgNoCanonicalPage

DetectionFailed == web.live.kind # "page" \/ ~Truthy(LiveHref)

\* C6: check_channel_live_status always returns a 4-tuple and never raises;
\* when the fetch or the parse fails the tuple is (False, None, None, e) with
\* e a non-empty text containing the underlying error's message.
C6_DetectorNeverRaises ==
    pc = "detected" =>
        /\ outcome.tag = "return"
        /\ Len(outcome.val) = 4
        /\ DetectionFailed =>
              /\ outcome.val[1] = FALSE
              /\ outcome.val[2] = None
              /\ outcome.val[3] = None
              /\ outcome.val[4].some
              /\ outcome.val[4].v # <<>>
              /\ Contains(outcome.val[4].v, UnderlyingError)

C6_Witness ==
    /\ pc = "detected"
    /\ web.live.kind = "page"
    /\ web.live.canon # <<>>
    /\ ~Truthy(LiveHref)
    /\ outcome.tag = "return"
    /\ outcome.val[4].some

\* C7: in every returned status, live implies a non-empty livestream_url
\* and no error; an error implies not live, no livestream_url and no title;
\* a title implies live.
C7_StatusIsConsistent ==
    (pc = "detected" /\ outcome.tag = "return") =>
        /\ outcome.val[1] => (Truthy(outcome.val[2]) /\ ~outcome.val[4].some)
        /\ outcome.val[4].some =>
              (~outcome.val[1] /\ ~outcome.val[2].some /\ ~outcome.val[3].some)
        /\ outcome.val[3].some => outcome.val[1]

C7_Witness ==
    /\ pc = "detected"
    /\ outcome.tag = "return"
    /\ outcome.val[1]
    /\ outcome.val[3].some
    /\ web.live.metas # <<>>

\* C8: when the live page's canonical target holds youtube.com/watch?v=
\* followed by an 11-character broadcast identifier b (the leftmost such
\* place), the status is live, livestream_url is
\* https://www.youtube.com/watch?v= + b, there is no error, and title is the
\* content of the title metadata element when it has one that is not empty.
C8_WatchTargetMeansLive ==
    (pc = "detected" /\ Truthy(LiveHref) /\ WatchPositions(LiveHref.v) # {}) =>
        \E i \in WatchPositions(LiveHref.v) :
            /\ \A j \in WatchPositions(LiveHref.v) : i <= j
            /\ outcome.tag = "return"
            /\ outcome.val[1] = TRUE
            /\ outcome.val[2] =
                  Some(<<"h", "t", "t", "p", "s", ":", "/", "/", "w", "w", "w", ".", "y", "o", "u", "t", "u", "b", "e", ".", "c", "o", "m", "/", "w", "a", "t", "c", "h", "?", "v", "=">> \o SubSeq(LiveHref.v, i + 20, i + 30))
            /\ outcome.val[3] =
                  (IF web.live.metas # <<>> /\ Truthy(web.live.metas[1])
                   THEN web.live.metas[1] ELSE None)
            /\ outcome.val[4] = None

C8_Witness ==
    /\ pc = "detected"
    /\ Cardinality(WatchPositions(LiveHref.v)) >= 2
    /\ outcome.tag = "return"
    /\ outcome.val[2] = Some(WatchBase \o VideoB)
    /\ outcome.val[3] = Some(<<"M", "o", "r", "n", "i", "n", "g", " ", "S", "h", "o", "w">>)

\* C9: when the live page has a canonical link with a non-empty target that
\* is not a watch-page URL, the status is not live with no livestream_url,
\* no title and no error.
C9_OtherTargetMeansNotLive ==
    (pc = "detected" /\ Truthy(LiveHref) /\ WatchPositions(LiveHref.v) = {}) =>
        /\ outcome.tag = "return"
        /\ outcome.val = <<FALSE, None, None, None>>

C9_Witness ==
    /\ pc = "detected"
    /\ LiveHref = Some(ChannelBase \o IdB \o LiveSuffix)
    /\ web.live.metas # <<>>
    /\ Truthy(web.live.metas[1])
    /\ outcome = Return(<<FALSE, None, None, None>>)

-----------------------------------------------------------------------------
(* Properties of the caller-facing check (checked under SpecCheck) *)

Keys == DOMAIN outcome.val

\* C10: every Check Result holds exactly one of the keys channel_id and
\* channel_id_or_url, also when resolution succeeded and the detector call
\* raised an unexpected exception.
C10_ExactlyOneIdentityKey ==
    pc = "checked" => (("channel_id" \in Keys) # ("channel_id_or_url" \in Keys))

\* what the resolver does with the input of the check
Resolution == ExtractChannelIdFromUrl(input, web.resolve)

\* C11: when resolution fails, check_if_live returns a result without
\* channel_id, whose channel_id_or_url is the input exactly as passed
\* (untrimmed), whose is_live is false, whose error is the ParsingError's
\* message and which has checked_at; the detector is not called and nothing
\* is fetched beyond what the resolver fetched.
C11_ResolutionFailureResult ==
    pc = "checked" =>
        LET res == Resolution
        IN  res.out.tag = "raise" =>
                /\ res.out.exc = "ParsingError"
                /\ outcome.tag = "return"
                /\ DOMAIN outcome.val = {"checked_at", "channel_id_or_url", "is_live", "error"}
                /\ outcome.val["channel_id_or_url"] = input
                /\ outcome.val["is_live"] = FALSE
                /\ outcome.val["error"] = res.out.val
                /\ calls = <<"extract_channel_id_from_url">>
                /\ fetches = res.fetched

\* a handle with a trailing blank whose page could not be fetched
C11_Witness ==
    /\ pc = "checked"
    /\ input = <<"R", "a", "i", "l", "C", "o", "w", "G", "i", "r", "l", " ">>
    /\ web.resolve.kind = "transport"
    /\ outcome.tag = "return"
    /\ "channel_id" \notin DOMAIN outcome.val
    /\ "channel_id_or_url" \in DOMAIN outcome.val
    /\ outcome.val["channel_id_or_url"] = input
    /\ fetches = <<HandleBase \o <<"@", "R", "a", "i", "l", "C", "o", "w", "G", "i", "r", "l">>>>
    /\ calls = <<"extract_channel_id_from_url">>

\* C12: a result of check_if_live either has no error key, and then is_live
\* is the detector's verdict and livestream_url is present exactly when
\* is_live is true, or it has an error key, and then is_live is false and
\* neither livestream_url nor title is present.
C12_ResultUnambiguous ==
    pc = "checked" =>
        /\ outcome.tag = "return"
        /\ LET r == outcome.val
               K == DOMAIN outcome.val
           IN  /\ "is_live" \in K
               /\ IF "error" \in K
                  THEN /\ r["is_live"] = FALSE
                       /\ "livestream_url" \notin K
                       /\ "title" \notin K
                  ELSE /\ "channel_id" \in K
                       /\ r["is_live"] = (WatchPositions(LiveHref.v) # {})
                       /\ ("livestream_url" \in K) <=> r["is_live"]

\* a live result and no error
C12_Witness ==
    /\ pc = "checked"
    /\ outcome.tag = "return"
    /\ "error" \notin DOMAIN outcome.val
    /\ "is_live" \in DOMAIN outcome.val
    /\ outcome.val["is_live"] = TRUE
    /\ "livestream_url" \in DOMAIN outcome.val
    /\ outcome.val["livestream_url"] = WatchBase \o VideoA

\* the failure inside a check, if any, and its description
CheckFailure ==
    LET res == Resolution
    IN  IF res.out.tag = "raise" THEN Some(res.out.val)
        ELSE IF web.detectorFault.some THEN Some(web.detectorFault.v)
        ELSE IF DetectionFailed THEN Some(UnderlyingError)
        ELSE None

\* C13: check_if_live never raises: a resolution failure, a detection
\* failure and an unexpected exception each end in a returned result that
\* has is_live, error and checked_at, and error contains the description of
\* the underlying failure.
C13_CheckNeverRaises ==
    pc = "checked" =>
        /\ outcome.tag = "return"
        /\ "checked_at" \in DOMAIN outcome.val
        /\ "is_live" \in DOMAIN outcome.val
        /\ LET f == CheckFailure
           IN  f.some =>
                   /\ "error" \in DOMAIN outcome.val
                   /\ outcome.val["is_live"] = FALSE
                   /\ Contains(outcome.val["error"], f.v)

\* an unexpected exception of the detector ended in a result
C13_Witness ==
    /\ pc = "checked"
    /\ web.detectorFault = Some(<<"T", "e", "s", "t", " ", "u", "n", "e", "x", "p", "e", "c", "t", "e", "d", " ", "e", "r", "r", "o", "r">>)
    /\ calls = <<"extract_channel_id_from_url", "check_channel_live_status">>
    /\ outcome.tag = "return"
    /\ "error" \in DOMAIN outcome.val
    /\ outcome.val["error"] = MsgUnexpected \o <<"T", "e", "s", "t", " ", "u", "n", "e", "x", "p", "e", "c", "t", "e", "d", " ", "e", "r", "r", "o", "r">>

\* C17: within one check_if_live the resolver fetches nothing when the input
\* holds an identifier and at most once otherwise; the detector fetches
\* exactly once when resolution succeeded, after the resolver's fetch, and
\* not at all when it failed; no fetch is repeated, so there are at most two.
\* (The detector is the repository's: a replaced detector that raises is
\* called after a successful resolution too, and fetches nothing.)
C17_FetchesBoundedAndOrdered ==
    pc = "checked" =>
        LET res == Resolution
            detectorRan == res.out.tag = "return" /\ ~web.detectorFault.some
        IN  /\ IdPositions(Strip(input)) # {} => res.fetched = <<>>
            /\ Len(res.fetched) <= 1
            /\ fetches = res.fetched \o
                         (IF detectorRan THEN <<LiveUrl(res.out.val)>> ELSE <<>>)
            /\ (res.out.tag = "return") <=> ("check_channel_live_status" \in {calls[i] : i \in 1..Len(calls)})
            /\ Len(fetches) <= 2

\* a handle resolved by one fetch, then a live-page fetch that failed
C17_Witness ==
    /\ pc = "checked"
    /\ input = <<"@", "R", "a", "i", "l", "C", "o", "w", "G", "i", "r", "l">>
    /\ web.live.kind = "status"
    /\ fetches = <<HandleBase \o <<"@", "R", "a", "i", "l", "C", "o", "w", "G", "i", "r", "l">>, LiveUrl(IdB)>>
    /\ outcome.tag = "return"
    /\ "error" \in DOMAIN outcome.val

-----------------------------------------------------------------------------
(* Properties of the background poller (checked under SpecPoller) *)

\* the lifespan has ended
ServiceDown == app \in {"stopped", "failed"}

\* a poller check has completed
Completed(p) == p.out.tag # "none"

\* the notify calls of kind k made by the check p
Notices(p, k) == {i \in 1..Len(p.notified) : p.notified[i].kind = k}

\* this step is the end of a check
CheckEnds == task = "checking" /\ task' # "checking"

\* this step is the start of a check
CheckBegins == task # "checking" /\ task' = "checking"

\* C14: a broadcast that stays live over consecutive polls, with the same
\* livestream_url, is notified once: the check that follows a check which
\* sent a live notification for a URL, and which detects the same URL, sends
\* no live notification.
C14_OneNotificationPerBroadcast ==
    [][ ( /\ CheckEnds
          /\ Notices(last, "live") # {}
          /\ poll.ran
          /\ poll.status[1]
          /\ poll.status[2] = last.notified[1].url )
        => Notices(last', "live") = {} ]_vars

\* POLL_FREQUENCY_MINUTES is unset or a text that int() reads, and the
\* interval made of it is one that asyncio.sleep accepts
IntervalAccepted ==
    LET i == PollInterval(env)
    IN  i.tag = "return" /\ ~SleepOverflows(i.val)

\* with MONITORED_CHANNEL_ID unset or empty a poller check does not call
\* the detector, fetches nothing, notifies nobody, posts nothing and returns
\* normally
NoChannelCheckIdle ==
    ~Truthy(env.channel) =>
        /\ task = "checking" => poll = IdlePoll
        /\ Completed(last) => last = [IdlePoll EXCEPT !.out = Return(<<>>)]

\* the loop is in a check or in the sleep after one, or was cancelled there
LoopRunning == task \in {"sleeping", "woken", "checking", "cancelled"}

\* C15 as stated: with MONITORED_CHANNEL_ID unset or empty a poller check
\* fetches nothing, notifies nobody and raises nothing, and after it the
\* loop keeps running.
C15_AsStated ==
    /\ NoChannelCheckIdle
    /\ (~Truthy(env.channel) /\ Completed(last)) => LoopRunning

\* C15: with MONITORED_CHANNEL_ID unset or empty a poller check does not
\* call the detector, fetches nothing, notifies nobody, posts nothing and
\* returns normally; after it the loop keeps running, provided the interval
\* is one that asyncio.sleep accepts.
C15_NoChannelNoOp ==
    /\ NoChannelCheckIdle
    /\ (~Truthy(env.channel) /\ Completed(last) /\ ~SleepOverflows(interval)) => LoopRunning

\* a second no-op check is under way after the first one and its sleep
C15_Witness ==
    /\ env.channel = Some(<<>>)
    /\ task = "checking"
    /\ Completed(last)
    /\ last.fetched = <<>>
    /\ last.notified = <<>>

\* TG_URL or TG_ROUTE is unset or empty
SinkUnconfigured == ~Truthy(env.tgUrl) \/ ~Truthy(env.tgRoute)

\* C16: with TG_URL or TG_ROUTE unset or empty, a call of notify_live_stream
\* or of notify_error posts nothing to the sink and returns normally.
C16_UnconfiguredSinkSkipped ==
    (SinkUnconfigured /\ last.notified # <<>>) =>
        /\ last.posts = <<>>
        /\ last.out = Return(<<>>)

\* notify_live_stream was called with a URL set but a route that is empty
C16_Witness ==
    /\ env.tgUrl = Some(<<"h", "t", "t", "p", ":", "/", "/", "t", "g", "/", "s", "e", "n", "d">>)
    /\ env.tgRoute = Some(<<>>)
    /\ Len(last.notified) = 1
    /\ last.notified[1].kind = "live"
    /\ last.posts = <<>>
    /\ last.out = Return(<<>>)

\* C18: a poller check starts only at the top of the loop, with no check in
\* progress: either as the first check, or after the previous check has
\* ended and the sleep that follows it has elapsed; a check in progress is
\* followed by the sleep or, when asyncio.sleep raises, by the end of the
\* task, and the sleep by nothing but its end or the cancellation.
C18_ChecksSerialized ==
    [][ /\ CheckBegins =>
              /\ poll = IdlePoll
              /\ \/ task = "entered" /\ ~Completed(last)
                 \/ task = "woken" /\ Completed(last)
        /\ task = "checking" => task' \in {"checking", "sleeping", "crashed"}
        /\ task = "crashed" => task' = "crashed"
        /\ task = "sleeping" => task' \in {"sleeping", "woken", "cancelled"} ]_vars

\* a check in progress that follows a completed check
C18_Witness ==
    /\ task = "checking"
    /\ Completed(last)
    /\ poll.ran
    /\ last.ran

\* C19: a poller check makes at most one notify call and at most one POST:
\* notify_error exactly when the detector's tuple carries an error,
\* notify_live_stream exactly when it carries no error and is_live,
\* livestream_url and title are all set and non-empty, with the title and
\* the URL as the message; otherwise nothing.
C19_AtMostOneNotification ==
    Completed(last) =>
        LET t == last.status
            wantsError == last.ran /\ Truthy(t[4])
            wantsLive == last.ran /\ ~Truthy(t[4]) /\ t[1] /\ Truthy(t[2]) /\ Truthy(t[3])
        IN  /\ Len(last.notified) <= 1
            /\ Len(last.posts) <= 1
            /\ (Notices(last, "error") # {}) <=> wantsError
            /\ (Notices(last, "live") # {}) <=> wantsLive
            /\ wantsLive => last.notified[1].message = t[3].v \o <<"\n">> \o t[2].v
            /\ last.posts # <<>> => last.posts[1].message = last.notified[1].message

\* a broadcast detected as live on a page without a title: nothing sent
C19_Witness ==
    /\ Completed(last)
    /\ last.ran
    /\ last.status = <<TRUE, Some(WatchBase \o VideoA), None, None>>
    /\ last.notified = <<>>
    /\ last.posts = <<>>

\* every exception of a check is caught: the loop goes to its sleep
FailedCheckSleeps ==
    [][ (CheckEnds /\ last'.out.tag = "raise") => task' = "sleeping" ]_vars

\* unless the service is shut down, checks are started again and again
ChecksForever == <>ServiceDown \/ []<>(task = "checking")

\* C20 as stated: a check that raises is followed by the sleep, and unless
\* the service is shut down checks keep happening forever.
C20_AsStated == FailedCheckSleeps /\ ChecksForever

\* every exception of a check is caught: the loop goes to its sleep, when
\* the interval is one that asyncio.sleep accepts
FailedCheckSleepsIfAccepted ==
    [][ (CheckEnds /\ last'.out.tag = "raise" /\ ~SleepOverflows(interval))
            => task' = "sleeping" ]_vars

\* C20: provided POLL_FREQUENCY_MINUTES is unset or a text that int() reads,
\* and the interval made of it is one that asyncio.sleep accepts, a check
\* that raises is followed by the sleep, and unless the service is shut down
\* checks keep happening forever.
C20_LoopSurvivesFailingCheck ==
    /\ FailedCheckSleepsIfAccepted
    /\ IntervalAccepted => ChecksForever

\* a check is under way after a check that raised
C20_Witness ==
    /\ task = "checking"
    /\ Completed(last)
    /\ last.out.tag = "raise"
    /\ last.out.exc \in {"ValueError", "RequestException"}
    /\ app = "running"

-----------------------------------------------------------------------------
(* Properties of the poller's lifecycle (checked under SpecPoller) *)

\* the task is created at startup and at no other moment, and only once
StartedOnceAtStartup ==
    [][ /\ (task = "none" /\ task' # "none") =>
              app = "starting" /\ app' = "running" /\ task' = "created"
        /\ task # "none" => task' # "none"
        /\ task \notin {"none", "created"} => task' # "created"
        /\ app # "starting" => app' # "starting" ]_vars

\* the first check starts straight from the entry of the loop, and no sleep
\* comes before it
FirstCheckUnwaited ==
    [][ /\ task = "created" => task' \in {"created", "entered", "crashed", "cancelled"}
        /\ task = "entered" => task' \in {"entered", "checking"}
        /\ (CheckBegins /\ ~Completed(last)) => task = "entered"
        /\ (task' = "sleeping" /\ task # "sleeping") => Completed(last') ]_vars

\* the cancellation is requested once, while the task is suspended; it is
\* the next thing the task takes, ends it for good and has no other effect,
\* and lifespan ends only after the task
CancelEndsLoop ==
    [][ /\ (~cancelling /\ cancelling') =>
              /\ task \in {"created", "sleeping", "woken"}
              /\ app = "running"
              /\ task' = task /\ poll' = poll /\ last' = last
        /\ cancelling => (cancelling' /\ task' \in {task, "cancelled"})
        /\ (task # "cancelled" /\ task' = "cancelled") =>
              /\ cancelling
              /\ task \in {"created", "sleeping", "woken"}
              /\ app = "running"
              /\ poll' = poll /\ last' = last
        /\ task = "cancelled" => task' = "cancelled"
        /\ (~ServiceDown /\ ServiceDown') => task' \in {"cancelled", "crashed"} ]_vars

\* once the service is shut down no check starts and nothing is notified
QuietAfterShutdown ==
    [][ ServiceDown => (task' = task /\ poll' = poll /\ last' = last) ]_vars

\* the shutdown finds a task to cancel and cancels it
ShutdownCancels ==
    [][ (~ServiceDown /\ ServiceDown') => task' = "cancelled" ]_vars

\* C21 as stated: the task is started once, at startup; its first check is
\* not preceded by a sleep; the shutdown cancels the task, the cancellation
\* ending the loop; after the shutdown no check starts and nothing is
\* notified.
C21_AsStated ==
    /\ StartedOnceAtStartup
    /\ FirstCheckUnwaited
    /\ CancelEndsLoop
    /\ ShutdownCancels
    /\ QuietAfterShutdown

\* the shutdown cancels the task, unless the task has already ended by
\* itself: with the ValueError of a POLL_FREQUENCY_MINUTES that int() does
\* not read, or with the OverflowError of an interval that asyncio.sleep
\* does not accept
ShutdownCancelsLiveTask ==
    [][ (~ServiceDown /\ ServiceDown') =>
            IF IntervalAccepted
            THEN task' = "cancelled"
            ELSE task' \in {"cancelled", "crashed"} ]_vars

\* C21: the task is started once, at startup; its first check is not
\* preceded by a sleep; provided POLL_FREQUENCY_MINUTES is unset or a text
\* that int() reads, and the interval made of it is one that asyncio.sleep
\* accepts, the shutdown cancels the task, the cancellation ending the
\* loop; after the shutdown no check starts and nothing is notified.
C21_PollerLifecycle ==
    /\ StartedOnceAtStartup
    /\ FirstCheckUnwaited
    /\ CancelEndsLoop
    /\ ShutdownCancelsLiveTask
    /\ QuietAfterShutdown

\* the service was shut down during the sleep that followed a notified check
C21_Witness ==
    /\ app = "stopped"
    /\ cancelling
    /\ task = "cancelled"
    /\ Completed(last)
    /\ last.notified # <<>>
    /\ last.posts # <<>>
    /\ poll = IdlePoll

====
